---- MODULE Spec2Model ----
(***************************************************************************)
(* The content-acquisition subsystem of auto_agents: the CrawlResult       *)
(* model, the URL validators, the two crawl engines (TavilyCrawler,        *)
(* WebBaseCrawler), the engine factory and the tool adapters               *)
(* (CrawlerTool, tavily_web_crawl, requests_web_crawl).                    *)
(*                                                                         *)
(* A Python str is a sequence of fragments (TLA+ strings): the empty str   *)
(* is << >>, concatenation and f-strings are \o, and " " is a whitespace   *)
(* character.  An Optional[str] is a record [isNone, s].  The upstream     *)
(* (the HTTP server, the document loader, the extraction API, the client   *)
(* constructor, the environment) is the input of every call, drawn from    *)
(* small sets.  CrawlResult's headers, images and timestamp fields are     *)
(* passed through by the code untouched and are left out.                  *)
(***************************************************************************)
EXTENDS Integers, Sequences, FiniteSets, TLC

VARIABLES env, wb, tv, fac, ret, probe, tasks, heap

vars == <<env, wb, tv, fac, ret, probe, tasks, heap>>

(***************************************************************************)
(* Python str and Optional[str]                                            *)
(***************************************************************************)
Range(s) == {s[i] : i \in DOMAIN s}

Whitespace == {" ", "\n", "\t"}

RECURSIVE lstrip(_)
lstrip(s) == IF s # << >> /\ Head(s) \in Whitespace THEN lstrip(Tail(s)) ELSE s

RECURSIVE rstrip(_)
rstrip(s) ==
  IF s # << >> /\ s[Len(s)] \in Whitespace
  THEN rstrip(SubSeq(s, 1, Len(s) - 1))
  ELSE s

\* str.strip()
strip(s) == rstrip(lstrip(s))

\* bool(s) of a str
bool(s) == Len(s) > 0

None == [isNone |-> TRUE, s |-> << >>]

Some(s) == [isNone |-> FALSE, s |-> s]

\* bool(x) of an Optional[str]
Truthy(x) == ~x.isNone /\ bool(x.s)

(***************************************************************************)
(* URLs and urllib.parse.urlparse                                          *)
(***************************************************************************)
NotAUrl == <<"not a url">>

PlainUrl == <<"http", ":", "//", "example.com", "/", "a">>

CsdnUrl == <<"https", ":", "//", "blog.", "csdn.net", "/", "x">>

AngleUrl == <<"http", ":", "//", "example.com", "/", "<", "a", ">">>

FtpUrl == <<"ftp", ":", "//", "example.com", "/", "a">>

NoNetlocUrl == <<"http", ":", "/", "a">>

BadIPv6Url == <<"http", ":", "//", "[", "bad">>

Urls == {NotAUrl, PlainUrl, CsdnUrl, AngleUrl, FtpUrl, NoNetlocUrl, BadIPv6Url}

SchemeTokens == {"http", "https", "ftp"}

RECURSIVE TakeUntil(_, _)
TakeUntil(s, stops) ==
  IF s = << >> \/ Head(s) \in stops
  THEN << >>
  ELSE <<Head(s)>> \o TakeUntil(Tail(s), stops)

\* urlparse(url): the scheme before ":", the netloc between "//" and the next
\* "/", "?" or "#"; ValueError("Invalid IPv6 URL") on an unbalanced bracket.
urlparse(url) ==
  LET hasScheme == Len(url) >= 2 /\ url[2] = ":" /\ url[1] \in SchemeTokens
      rest == IF hasScheme THEN SubSeq(url, 3, Len(url)) ELSE url
      after == IF rest # << >> /\ Head(rest) = "//" THEN Tail(rest) ELSE << >>
      netloc == TakeUntil(after, {"/", "?", "#"})
  IN [raises |-> ("[" \in Range(netloc)) # ("]" \in Range(netloc)),
      scheme |-> IF hasScheme THEN url[1] ELSE "",
      netloc |-> netloc]

\* The characters of the blocklist string of validate_url; the double quote,
\* the backslash and the backtick are written by name.
Blocklist ==
  {"<", ">", "dquote", "{", "}", "|", "backslash", "^", "[", "]", "backtick"}

TavilyCrawler_validate_url(url) ==
  LET result == urlparse(url)
  IN IF result.raises
     THEN FALSE
     ELSE /\ result.scheme \in {"http", "https"}
          /\ bool(result.netloc)
          /\ ~(\E c \in Blocklist : c \in Range(url))

WebBaseCrawler_validate_url(url) ==
  LET result == urlparse(url)
  IN IF result.raises
     THEN FALSE
     ELSE result.scheme \in {"http", "https"} /\ bool(result.netloc)

\* requests_web_crawl: the inline check; any exception, the WebCrawlError it
\* raises itself included, is the invalid verdict.
requests_web_crawl_valid(url) ==
  LET parsed_url == urlparse(url)
  IN IF parsed_url.raises
     THEN FALSE
     ELSE parsed_url.scheme \in {"http", "https"} /\ bool(parsed_url.netloc)

(***************************************************************************)
(* CrawlResult (the dataclass of the engines, the pydantic model of the    *)
(* tools) and its properties                                               *)
(***************************************************************************)
\* status_code: Optional[int] = None of the tools' CrawlResult
NoStatus == -1

CrawlResult(url, content, status_code, metadata, error) ==
  [url |-> url, content |-> content, status_code |-> status_code,
   metadata |-> metadata, error |-> error]

\* is_success without its test of error
is_success_ignores_error(r) ==
  /\ r.status_code >= 200
  /\ r.status_code < 300
  /\ bool(r.content)

is_success(r) ==
  /\ r.status_code >= 200
  /\ r.status_code < 300
  /\ bool(r.content)
  /\ ~Truthy(r.error)

is_error(r) == Truthy(r.error) \/ r.status_code >= 400

\* The tools' is_success with the upper bound of the range included
tool_is_success_upto_300(r) ==
  /\ r.status_code # NoStatus
  /\ 200 <= r.status_code /\ r.status_code <= 300
  /\ bool(r.content)
  /\ ~Truthy(r.error)

tool_is_success(r) ==
  /\ r.status_code # NoStatus
  /\ 200 <= r.status_code /\ r.status_code < 300
  /\ bool(r.content)
  /\ ~Truthy(r.error)

(***************************************************************************)
(* Exceptions                                                              *)
(***************************************************************************)
\* An exception: its type, str(e), and e.response.status_code of a requests
\* HTTPError (NoStatus when the exception carries no response).
ExcOf(type, msg, response) == [type |-> type, msg |-> msg, response |-> response]

Exc(type, msg) == ExcOf(type, msg, NoStatus)

NoExc == Exc("", << >>)

\* The direct base class of each exception type; the tools' own taxonomy
\* (web_crawl.py) is apart from the engines' (crawl_errors.py).
BaseOf ==
  [t \in {"Exception", "ValueError", "AttributeError", "TimeoutError",
          "CrawlerError", "ConfigurationError", "NetworkError",
          "ContentExtractionError", "RateLimitError", "AuthenticationError",
          "RequestException", "HTTPError", "ConnectionError",
          "WebCrawlError", "tool.ConfigurationError", "tool.NetworkError",
          "tool.ContentExtractionError"} |->
     CASE t \in {"ConfigurationError", "NetworkError", "ContentExtractionError",
                 "RateLimitError", "AuthenticationError"} -> "CrawlerError"
       [] t \in {"HTTPError", "ConnectionError"} -> "RequestException"
       [] t \in {"tool.ConfigurationError", "tool.NetworkError",
                 "tool.ContentExtractionError"} -> "WebCrawlError"
       [] t = "Exception" -> "BaseException"
       [] OTHER -> "Exception"]

RECURSIVE isinstance(_, _)
isinstance(t, cls) ==
  \/ t = cls
  \/ t \in DOMAIN BaseOf /\ isinstance(BaseOf[t], cls)

\* What a call hands back: a returned value or a raised exception.  fault is
\* the exception that arose inside the call, whether it escaped or was caught.
NoResult == CrawlResult(<< >>, << >>, NoStatus, "", None)

Return(r, fault) ==
  [kind |-> "return", result |-> r, text |-> << >>, exc |-> NoExc, fault |-> fault]

ReturnText(t, fault) ==
  [kind |-> "return", result |-> NoResult, text |-> t, exc |-> NoExc, fault |-> fault]

Raise(e) ==
  [kind |-> "raise", result |-> NoResult, text |-> << >>, exc |-> e, fault |-> e]

(***************************************************************************)
(* The upstream: what the HTTP server and the document loader answer       *)
(***************************************************************************)
Statuses == {200, 204, 304, 404, 503}

Bodies == {<< >>, <<" ">>, <<"b">>}

Response(status, body) ==
  [kind |-> "response", status |-> status, body |-> body, exc |-> NoExc]

GetFails(e) == [kind |-> "raise", status |-> 0, body |-> << >>, exc |-> e]

NoGet == [kind |-> "unused", status |-> 0, body |-> << >>, exc |-> NoExc]

\* session.get(...): a response, a transport error, or an exception whose
\* str() is empty.
GetOutcomes ==
  {Response(st, b) : st \in Statuses, b \in Bodies}
    \cup {GetFails(Exc("ConnectionError", <<"connection refused">>)),
          GetFails(Exc("TimeoutError", << >>))}

Docs(pages) == [kind |-> "docs", docs |-> pages, exc |-> NoExc]

LoadFails(e) == [kind |-> "raise", docs |-> << >>, exc |-> e]

NoLoad == [kind |-> "unused", docs |-> << >>, exc |-> NoExc]

\* loader.load(): a list of documents (their page_content), or an exception.
LoadOutcomes ==
  {Docs(<< >>), Docs(<< <<" ">> >>), Docs(<< <<"d">> >>),
   Docs(<< <<" ", "d">> >>),
   LoadFails(Exc("ConnectionError", <<"loader failed">>))}

(***************************************************************************)
(* WebBaseCrawler                                                          *)
(***************************************************************************)
\* requests' Response.raise_for_status(): HTTPError for 400 <= status < 600
raise_for_status(response) ==
  IF 400 <= response.status /\ response.status < 600
  THEN ExcOf("HTTPError", <<ToString(response.status), " Error">>,
             response.status)
  ELSE NoExc

\* The fallback test without strip(): if not content
WebBaseCrawler_needs_loader_nostrip(content) == ~bool(content)

\* if not content.strip():
WebBaseCrawler_needs_loader(content) == ~bool(strip(content))

\* if not docs or not docs[0].page_content.strip():
WebBaseCrawler_no_docs(docs) == docs = << >> \/ ~bool(strip(docs[1]))

WebBaseCrawler_no_content_msg(mode) ==
  IF mode = "async"
  THEN <<"No content extracted by WebBaseLoader async">>
  ELSE <<"No content extracted">>

WebBaseCrawler_metadata(mode) ==
  IF mode = "async" THEN "source,method=async" ELSE "source"

\* The result with its content stripped
WebBaseCrawler_result_stripped(url, content, response, mode) ==
  CrawlResult(url, strip(content), response.status,
              WebBaseCrawler_metadata(mode), None)

\* The result built after the try body ran through.
WebBaseCrawler_result(url, content, response, mode) ==
  CrawlResult(url, content, response.status, WebBaseCrawler_metadata(mode), None)

\* A try body that sends the GET a second time when the first one failed
WebBaseCrawler_try_retries(url, g, l, mode) ==
  IF g.kind = "raise"
  THEN [out |-> Raise(g.exc), ops |-> <<"get", "get">>]
  ELSE IF raise_for_status(g) # NoExc
  THEN [out |-> Raise(raise_for_status(g)), ops |-> <<"get", "get">>]
  ELSE IF ~WebBaseCrawler_needs_loader(g.body)
  THEN [out |-> Return(WebBaseCrawler_result(url, g.body, g, mode), NoExc),
        ops |-> <<"get">>]
  ELSE [out |-> Raise(Exc("ContentExtractionError",
                          WebBaseCrawler_no_content_msg(mode))),
        ops |-> <<"get", "load">>]

\* The try body of crawl (mode "sync") and acrawl (mode "async"): the GET, the
\* status check, the decoding, the fallback loader, the result.  ops lists the
\* network operations performed, in order.
WebBaseCrawler_try(url, g, l, mode) ==
  IF g.kind = "raise"
  THEN [out |-> Raise(g.exc), ops |-> <<"get">>]
  ELSE IF raise_for_status(g) # NoExc
  THEN [out |-> Raise(raise_for_status(g)), ops |-> <<"get">>]
  ELSE IF ~WebBaseCrawler_needs_loader(g.body)
  THEN [out |-> Return(WebBaseCrawler_result(url, g.body, g, mode), NoExc),
        ops |-> <<"get">>]
  ELSE IF l.kind = "raise"
  THEN [out |-> Raise(l.exc), ops |-> <<"get", "load">>]
  ELSE IF WebBaseCrawler_no_docs(l.docs)
  THEN [out |-> Raise(Exc("ContentExtractionError",
                          WebBaseCrawler_no_content_msg(mode))),
        ops |-> <<"get", "load">>]
  ELSE [out |-> Return(WebBaseCrawler_result(url, l.docs[1], g, mode), NoExc),
        ops |-> <<"get", "load">>]

\* except Exception as e: the error result
WebBaseCrawler_except(url, e) ==
  CrawlResult(url, << >>, 500, "", Some(e.msg))

\* The invalid-URL result with the status of the other failures
WebBaseCrawler_invalid_500(url) ==
  CrawlResult(url, << >>, 500, "", Some(<<"Invalid URL">>))

WebBaseCrawler_invalid(url) ==
  CrawlResult(url, << >>, 400, "", Some(<<"Invalid URL">>))

\* if 'csdn.net' in url: session.headers.update({Referer, Cookie})
WebBaseCrawler_override(url) == "csdn.net" \in Range(url)

\* crawl / acrawl as a whole: [out, ops, override], override telling whether the
\* call merged the domain headers into the session's.
WebBaseCrawler_call(url, g, l, mode) ==
  IF ~WebBaseCrawler_validate_url(url)
  THEN [out |-> Return(WebBaseCrawler_invalid(url), NoExc), ops |-> << >>,
        override |-> FALSE]
  ELSE LET t == WebBaseCrawler_try(url, g, l, mode)
       IN [out |-> IF t.out.kind = "raise"
                   THEN Return(WebBaseCrawler_except(url, t.out.exc), t.out.exc)
                   ELSE t.out,
           ops |-> t.ops,
           override |-> WebBaseCrawler_override(url)]

\* WebBaseCrawler.__init__: a fresh session with the browser headers
WebBaseCrawler_init == [override |-> FALSE, closed |-> FALSE]

\* session.get(...) of this engine's session: a session that was closed opens
\* its connection pools again on demand, so the request is answered as on a
\* fresh one.
Session_get(self, g) == g

\* cleanup that fails on a session closed before
WebBaseCrawler_cleanup_once(self) ==
  IF self.closed
  THEN [exc |-> Exc("Exception", <<"session is closed">>), self |-> self]
  ELSE [exc |-> NoExc, self |-> [self EXCEPT !.closed = TRUE]]

\* WebBaseCrawler.cleanup: self.session.close()
WebBaseCrawler_cleanup(self) ==
  [exc |-> NoExc, self |-> [self EXCEPT !.closed = TRUE]]

(***************************************************************************)
(* BaseCrawler: cleanup and the context manager                            *)
(***************************************************************************)
\* BaseCrawler.cleanup: pass (TavilyCrawler inherits it)
BaseCrawler_cleanup(self) == [exc |-> NoExc, self |-> self]

\* __enter__: return self
BaseCrawler_enter(self) == self

\* __exit__ returning True: the exception of the body is swallowed
BaseCrawler_exit_suppresses(c) ==
  [exc |-> c.exc, self |-> c.self, ops |-> <<"cleanup">>, suppress |-> TRUE]

\* __exit__: self.cleanup(); return False.  c is what the cleanup of the
\* engine's class does.
BaseCrawler_exit(c) ==
  [exc |-> c.exc, self |-> c.self, ops |-> <<"cleanup">>, suppress |-> FALSE]

\* What the body of a with block does: it ends, or it raises
BodyOutcomes == {NoExc, Exc("Exception", <<"body failed">>)}

\* with crawler as c: <body>.  __enter__, the body, __exit__ on either way out;
\* the body's exception goes on to the caller unless __exit__ returned a true
\* value, and an exception of __exit__ takes its place.  [out, ops, self]
BaseCrawler_with(body, c) ==
  LET x == BaseCrawler_exit(c)
  IN [out |-> IF x.exc # NoExc
              THEN Raise(x.exc)
              ELSE IF body # NoExc /\ ~x.suppress
              THEN Raise(body)
              ELSE Return(NoResult, body),
      ops |-> <<"enter", "body">> \o x.ops,
      self |-> x.self]

(***************************************************************************)
(* The upstream of the extraction API: the client constructor and invoke   *)
(***************************************************************************)
\* TavilyExtract(...): built, or an exception
BuildOutcomes == {"ok", "fail"}

BuildError == Exc("Exception", <<"cannot build client">>)

Raw(isDict, results, failed) ==
  [kind |-> "value", isDict |-> isDict, results |-> results, failed |-> failed,
   exc |-> NoExc]

InvokeFails(e) ==
  [kind |-> "raise", isDict |-> FALSE, results |-> << >>, failed |-> << >>,
   exc |-> e]

NoInvoke ==
  [kind |-> "unused", isDict |-> FALSE, results |-> << >>, failed |-> << >>,
   exc |-> NoExc]

\* One entry of "results": raw_content present or not
ResultEntry(hasRaw, raw) == [hasRaw |-> hasRaw, raw |-> raw]

\* One entry of "failed_results": a dict or not, with an "error" key or not
FailedEntry(isDict, hasError, error) ==
  [isDict |-> isDict, hasError |-> hasError, error |-> error]

\* client.invoke({"urls": [url]}): an exception, a value that is no dict, or a
\* dict with its "results" and "failed_results".
InvokeOutcomes ==
  {InvokeFails(Exc("Exception", <<"api down">>)),
   InvokeFails(Exc("TimeoutError", << >>)),
   Raw(FALSE, << >>, << >>),
   Raw(TRUE, << >>, << >>),
   Raw(TRUE, << >>, <<FailedEntry(TRUE, TRUE, <<"blocked">>)>>),
   Raw(TRUE, << >>, <<FailedEntry(TRUE, FALSE, << >>)>>),
   Raw(TRUE, << >>, <<FailedEntry(FALSE, FALSE, << >>)>>),
   Raw(TRUE, <<ResultEntry(TRUE, <<"t">>)>>, << >>),
   Raw(TRUE, <<ResultEntry(TRUE, <<" ", "t", " ">>)>>, << >>),
   Raw(TRUE, <<ResultEntry(TRUE, <<" ">>)>>, << >>),
   Raw(TRUE, <<ResultEntry(FALSE, << >>)>>, << >>)}

(***************************************************************************)
(* TavilyCrawler                                                           *)
(***************************************************************************)
\* TavilyCrawler.__init__ after TavilyConfig.from_env() succeeded
TavilyCrawler_init == [exists |-> TRUE, client |-> FALSE, cached |-> FALSE]

NoTavily == [exists |-> FALSE, client |-> FALSE, cached |-> FALSE]

\* TavilyConfig.from_env: the exception of a missing TAVILY_API_KEY
TavilyConfig_from_env(apiKey) ==
  IF apiKey
  THEN NoExc
  ELSE Exc("AuthenticationError",
           <<"TAVILY_API_KEY environment variable is required">>)

\* The client property without a cache: every access builds a client
TavilyCrawler_client_nocache(self, b) ==
  IF b = "ok"
  THEN [exc |-> NoExc, self |-> [self EXCEPT !.client = TRUE, !.cached = TRUE],
        ops |-> <<"build">>]
  ELSE [exc |-> Exc("NetworkError",
                    <<"Failed to initialize Tavily client: ">> \o BuildError.msg),
        self |-> self, ops |-> <<"build">>]

\* The cached property client: [exc, self, ops].  A value the property has
\* returned is cached; the getter builds the client unless _client is set.
TavilyCrawler_client(self, b) ==
  IF self.cached \/ self.client
  THEN [exc |-> NoExc, self |-> [self EXCEPT !.cached = TRUE], ops |-> << >>]
  ELSE IF b = "ok"
  THEN [exc |-> NoExc, self |-> [self EXCEPT !.client = TRUE, !.cached = TRUE],
        ops |-> <<"build">>]
  ELSE [exc |-> Exc("NetworkError",
                    <<"Failed to initialize Tavily client: ">> \o BuildError.msg),
        self |-> self, ops |-> <<"build">>]

\* first_result.get("raw_content", "").strip()
raw_content(entry) == strip(IF entry.hasRaw THEN entry.raw ELSE << >>)

\* _parse_tavily_response: [exc, content]
TavilyCrawler_parse_tavily_response(raw) ==
  IF ~raw.isDict
  THEN [exc |-> Exc("ContentExtractionError",
                    <<"Invalid response format:\n", "raw">>),
        content |-> << >>]
  ELSE IF raw.results = << >>
  THEN [exc |-> Exc("ContentExtractionError",
                    IF raw.failed # << >> /\ raw.failed[1].isDict
                    THEN <<"Extraction failed: ">>
                           \o (IF raw.failed[1].hasError
                               THEN raw.failed[1].error
                               ELSE <<"Unknown error">>)
                    ELSE <<"No content extracted">>),
        content |-> << >>]
  ELSE IF ~bool(raw_content(raw.results[1]))
  THEN [exc |-> Exc("ContentExtractionError", <<"Empty content extracted">>),
        content |-> << >>]
  ELSE [exc |-> NoExc, content |-> raw_content(raw.results[1])]

TavilyCrawler_metadata(mode) ==
  IF mode = "async" THEN "tavily_extract_async" ELSE "tavily_extract"

\* The try body of _crawl_impl (mode "sync") and of acrawl (mode "async"):
\* the client, the invoke, the parse, the result.  [out, ops, self]
TavilyCrawler_try(self, url, b, i, mode) ==
  LET c == TavilyCrawler_client(self, b)
      p == TavilyCrawler_parse_tavily_response(i)
  IN IF c.exc # NoExc
     THEN [out |-> Raise(c.exc), ops |-> c.ops, self |-> c.self]
     ELSE IF i.kind = "raise"
     THEN [out |-> Raise(i.exc), ops |-> c.ops \o <<"invoke">>, self |-> c.self]
     ELSE IF p.exc # NoExc
     THEN [out |-> Raise(p.exc), ops |-> c.ops \o <<"invoke">>, self |-> c.self]
     ELSE [out |-> Return(CrawlResult(url, p.content, 200,
                                      TavilyCrawler_metadata(mode), None), NoExc),
           ops |-> c.ops \o <<"invoke">>, self |-> c.self]

\* The except clauses of _crawl_impl: the engine's own errors are re-raised,
\* anything else is wrapped in a NetworkError.
TavilyCrawler_crawl_impl_except(e) ==
  IF isinstance(e.type, "ContentExtractionError") \/ isinstance(e.type, "NetworkError")
  THEN Raise(e)
  ELSE Raise(Exc("NetworkError", <<"Tavily extraction error: ">> \o e.msg))

\* crawl: ValueError on an invalid URL, else _crawl_impl.  [out, ops, self]
TavilyCrawler_crawl(self, url, b, i) ==
  IF ~TavilyCrawler_validate_url(url)
  THEN [out |-> Raise(Exc("ValueError", <<"Invalid URL: ">> \o url)),
        ops |-> << >>, self |-> self]
  ELSE LET t == TavilyCrawler_try(self, url, b, i, "sync")
       IN [out |-> IF t.out.kind = "raise"
                   THEN TavilyCrawler_crawl_impl_except(t.out.exc)
                   ELSE t.out,
           ops |-> t.ops, self |-> t.self]

\* The except clauses of acrawl: every exception becomes a 500 result.
TavilyCrawler_acrawl_except(url, e) ==
  IF isinstance(e.type, "ContentExtractionError") \/ isinstance(e.type, "NetworkError")
  THEN CrawlResult(url, << >>, 500, "", Some(e.msg))
  ELSE CrawlResult(url, << >>, 500, "",
                   Some(<<"Tavily async extraction error: ">> \o e.msg))

TavilyCrawler_invalid(url) ==
  CrawlResult(url, << >>, 400, "", Some(<<"Invalid URL">>))

\* acrawl: a 400 result on an invalid URL, else the try body.  [out, ops, self]
TavilyCrawler_acrawl(self, url, b, i) ==
  IF ~TavilyCrawler_validate_url(url)
  THEN [out |-> Return(TavilyCrawler_invalid(url), NoExc), ops |-> << >>,
        self |-> self]
  ELSE LET t == TavilyCrawler_try(self, url, b, i, "async")
       IN [out |-> IF t.out.kind = "raise"
                   THEN Return(TavilyCrawler_acrawl_except(url, t.out.exc),
                               t.out.exc)
                   ELSE t.out,
           ops |-> t.ops, self |-> t.self]

(***************************************************************************)
(* CrawlerEngineFactory and CrawlerTool (crawl.py)                         *)
(***************************************************************************)
\* The values of the CrawlerEngine enum
CrawlerEngine == {"tavily", "requests", "custom"}

\* get_crawler: a new engine on every call, or the exception of its
\* constructor, or ValueError for an engine without an implementation.
CrawlerEngineFactory_get_crawler(engine_type, apiKey) ==
  IF engine_type = "tavily"
  THEN [exc |-> TavilyConfig_from_env(apiKey), engine |-> "tavily"]
  ELSE IF engine_type = "requests"
  THEN [exc |-> NoExc, engine |-> "requests"]
  ELSE [exc |-> Exc("ValueError", <<"Unsupported crawler engine: ", engine_type>>),
        engine |-> "none"]

\* The engines get_crawler has created so far, per engine identifier; a run
\* creates MaxInstances engines at most.
MaxInstances == 2

NoInstances == [e \in {"tavily", "requests"} |-> 0]

\* What a get_crawler call adds to the engines created
FactoryMade(made, f) ==
  IF f.exc = NoExc THEN [made EXCEPT ![f.engine] = @ + 1] ELSE made

CanMake(made, f) ==
  IF f.exc # NoExc
  THEN TRUE
  ELSE made["tavily"] + made["requests"] < MaxInstances

\* The HTTP sessions a call opened and those it closed before it returned
Sessions(opened, closed) == [opened |-> opened, closed |-> closed]

NoSessions == Sessions(0, 0)

\* crawler = CrawlerEngineFactory.get_crawler(): WebBaseCrawler.__init__ opens
\* a requests.Session; neither _run nor _arun calls cleanup on the engine.
CrawlerTool_sessions(f) ==
  IF f.exc = NoExc /\ f.engine = "requests"
  THEN Sessions(1, 0)
  ELSE NoSessions

\* The str the tool returns for a result the engine returned
CrawlerTool_format(url, result) ==
  IF is_success(result)
  THEN <<"Successfully crawled ">> \o url \o <<". Results:\n ", "CrawlResult(">>
         \o result.content \o <<")", ".">>
  ELSE <<"Error crawling ">> \o url \o <<": ">>
         \o (IF Truthy(result.error)
             THEN result.error.s
             ELSE <<"Failed to crawl ">> \o url
                    \o <<" with status code ", ToString(result.status_code), ".">>)

\* The tool without its except clause: the exception reaches the caller
CrawlerTool_except_reraises(url, e) == Raise(e)

\* except Exception as e: the str the tool returns instead
CrawlerTool_except(url, e) ==
  ReturnText(<<"An unexpected error occurred while crawling ">> \o url
               \o <<": ">> \o e.msg, e)

\* The try body of _run and _arun: the factory, then crawl of the new engine.
CrawlerTool_try(url, engine_type, apiKey, g, l, b, i) ==
  LET f == CrawlerEngineFactory_get_crawler(engine_type, apiKey)
      c == IF f.engine = "tavily"
           THEN TavilyCrawler_crawl(TavilyCrawler_init, url, b, i)
           ELSE WebBaseCrawler_call(url, g, l, "sync")
  IN IF f.exc # NoExc
     THEN [out |-> Raise(f.exc), ops |-> << >>, sess |-> CrawlerTool_sessions(f)]
     ELSE [out |-> c.out, ops |-> c.ops, sess |-> CrawlerTool_sessions(f)]

\* CrawlerTool._run: [out, ops]
CrawlerTool_run(url, engine_type, apiKey, g, l, b, i) ==
  LET t == CrawlerTool_try(url, engine_type, apiKey, g, l, b, i)
  IN [out |-> IF t.out.kind = "raise"
              THEN CrawlerTool_except(url, t.out.exc)
              ELSE ReturnText(CrawlerTool_format(url, t.out.result), t.out.fault),
      ops |-> t.ops,
      sess |-> t.sess]

\* CrawlerTool._arun: crawler.crawl on the executor, awaited; the same
\* formatting and the same except clause.
CrawlerTool_arun(url, engine_type, apiKey, g, l, b, i) ==
  LET t == CrawlerTool_try(url, engine_type, apiKey, g, l, b, i)
  IN [out |-> IF t.out.kind = "raise"
              THEN CrawlerTool_except(url, t.out.exc)
              ELSE ReturnText(CrawlerTool_format(url, t.out.result), t.out.fault),
      ops |-> t.ops,
      sess |-> t.sess]

(***************************************************************************)
(* tavily_web_crawl and requests_web_crawl (web_crawl.py)                  *)
(***************************************************************************)
\* result = CrawlResult(url=url, content="")
ToolResult(url) == CrawlResult(url, << >>, NoStatus, "", None)

\* _get_tavily_client: [exc, ops]
get_tavily_client(apiKey, b) ==
  IF ~apiKey
  THEN [exc |-> Exc("tool.ConfigurationError",
                    <<"TAVILY_API_KEY environment variable is required.">>),
        ops |-> << >>]
  ELSE IF b = "ok"
  THEN [exc |-> NoExc, ops |-> <<"build">>]
  ELSE [exc |-> Exc("tool.NetworkError",
                    <<"Failed to initialize Tavily client: ">> \o BuildError.msg),
        ops |-> <<"build">>]

\* The parsing inside tavily_web_crawl: [exc, content]
tavily_web_crawl_parse(raw) ==
  IF ~raw.isDict
  THEN [exc |-> Exc("AttributeError", <<"object has no attribute 'get'">>),
        content |-> << >>]
  ELSE IF raw.results = << >>
  THEN IF raw.failed # << >> /\ ~raw.failed[1].isDict
       THEN [exc |-> Exc("AttributeError", <<"object has no attribute 'get'">>),
             content |-> << >>]
       ELSE [exc |-> Exc("tool.ContentExtractionError",
                         <<"Extraction failed: ">>
                           \o (IF raw.failed = << >>
                               THEN <<"No content extracted">>
                               ELSE IF raw.failed[1].hasError
                               THEN raw.failed[1].error
                               ELSE <<"Unknown error">>)),
             content |-> << >>]
  ELSE IF ~bool(raw_content(raw.results[1]))
  THEN [exc |-> Exc("tool.ContentExtractionError",
                    <<"Empty content extracted from Tavily.">>),
        content |-> << >>]
  ELSE [exc |-> NoExc, content |-> raw_content(raw.results[1])]

\* The try body of tavily_web_crawl: [out, ops]
tavily_web_crawl_try(url, apiKey, b, i) ==
  LET c == get_tavily_client(apiKey, b)
      p == tavily_web_crawl_parse(i)
  IN IF c.exc # NoExc
     THEN [out |-> Raise(c.exc), ops |-> c.ops]
     ELSE IF i.kind = "raise"
     THEN [out |-> Raise(i.exc), ops |-> c.ops \o <<"invoke">>]
     ELSE IF p.exc # NoExc
     THEN [out |-> Raise(p.exc), ops |-> c.ops \o <<"invoke">>]
     ELSE [out |-> Return([ToolResult(url) EXCEPT !.content = p.content,
                                                  !.status_code = 200], NoExc),
           ops |-> c.ops \o <<"invoke">>]

\* The except clauses of tavily_web_crawl
tavily_web_crawl_except(url, e) ==
  IF isinstance(e.type, "tool.ConfigurationError")
       \/ isinstance(e.type, "tool.NetworkError")
       \/ isinstance(e.type, "tool.ContentExtractionError")
  THEN Return([ToolResult(url) EXCEPT !.error = Some(e.msg)], e)
  ELSE Return([ToolResult(url) EXCEPT
                 !.error = Some(<<"An unexpected error occurred: ">> \o e.msg)], e)

\* tavily_web_crawl: [out, ops]; the JSON it returns holds the result's fields
tavily_web_crawl(url, apiKey, b, i) ==
  LET t == tavily_web_crawl_try(url, apiKey, b, i)
  IN [out |-> IF t.out.kind = "raise"
              THEN tavily_web_crawl_except(url, t.out.exc)
              ELSE t.out,
      ops |-> t.ops]

\* The try body of requests_web_crawl inside the session; status is what
\* result.status_code holds when the body is left.  [out, ops, status]
requests_web_crawl_try(url, g, l) ==
  IF g.kind = "raise"
  THEN [out |-> Raise(g.exc), ops |-> <<"get">>, status |-> NoStatus]
  ELSE IF raise_for_status(g) # NoExc
  THEN [out |-> Raise(raise_for_status(g)), ops |-> <<"get">>, status |-> NoStatus]
  ELSE IF bool(strip(g.body))
  THEN [out |-> Return([ToolResult(url) EXCEPT !.status_code = g.status,
                                               !.content = g.body], NoExc),
        ops |-> <<"get">>, status |-> g.status]
  ELSE IF l.kind = "raise"
  THEN [out |-> Raise(l.exc), ops |-> <<"get", "load">>, status |-> g.status]
  ELSE IF l.docs = << >> \/ ~bool(strip(l.docs[1]))
  THEN [out |-> Raise(Exc("tool.ContentExtractionError",
                          <<"No content extracted by WebBaseLoader.">>)),
        ops |-> <<"get", "load">>, status |-> g.status]
  ELSE [out |-> Return([ToolResult(url) EXCEPT !.status_code = g.status,
                                               !.content = l.docs[1]], NoExc),
        ops |-> <<"get", "load">>, status |-> g.status]

\* The except clauses of requests_web_crawl, on the result as the try body
\* left it
requests_web_crawl_except(url, status, e) ==
  IF isinstance(e.type, "RequestException")
  THEN Return([ToolResult(url) EXCEPT
                 !.error = Some(<<"A network error occurred: ">> \o e.msg),
                 !.status_code = IF e.response # NoStatus THEN e.response ELSE status],
              e)
  ELSE IF isinstance(e.type, "tool.ContentExtractionError")
  THEN Return([ToolResult(url) EXCEPT
                 !.error = Some(<<"Failed to extract content: ">> \o e.msg),
                 !.status_code = status], e)
  ELSE Return([ToolResult(url) EXCEPT
                 !.error = Some(<<"An unexpected error occurred: ">> \o e.msg),
                 !.status_code = status], e)

\* with _create_requests_session() as session: the session is opened on
\* entry and Session.__exit__ closes it on every way out of the block.
requests_web_crawl_with == Sessions(1, 1)

\* requests_web_crawl: [out, ops, sess]
requests_web_crawl(url, g, l) ==
  IF ~requests_web_crawl_valid(url)
  THEN [out |-> Return([ToolResult(url) EXCEPT
                          !.error = Some(<<"Invalid URL format for ">> \o url
                                           \o <<".">>)], NoExc),
        ops |-> << >>,
        sess |-> NoSessions]
  ELSE LET t == requests_web_crawl_try(url, g, l)
       IN [out |-> IF t.out.kind = "raise"
                   THEN requests_web_crawl_except(url, t.status, t.out.exc)
                   ELSE t.out,
           ops |-> t.ops,
           sess |-> requests_web_crawl_with]

(***************************************************************************)
(* The state machine: one engine of each kind held by a caller, the tools, *)
(* and ret, the record of the call that just ended: its entry point, its   *)
(* URL, the upstream answers it consumed, what it handed back and the      *)
(* network operations it performed.  Calls are made one after the other:   *)
(* the caller reads ret and drops it before the next call.                 *)
(***************************************************************************)
\* The upstream answers a call consumed (those of operations it performed)
Up(ops, g, l, b, i) ==
  [get |-> IF {"get", "navigate"} \cap Range(ops) # {} THEN g ELSE NoGet,
   load |-> IF "load" \in Range(ops) THEN l ELSE NoLoad,
   build |-> IF "build" \in Range(ops) THEN b ELSE "unused",
   invoke |-> IF "invoke" \in Range(ops) THEN i ELSE NoInvoke]

Call(api, url, c, g, l, b, i) ==
  [api |-> api, url |-> url, up |-> Up(c.ops, g, l, b, i), out |-> c.out,
   ops |-> c.ops,
   sess |-> IF "sess" \in DOMAIN c THEN c.sess ELSE NoSessions]

NoCall ==
  [api |-> "", url |-> << >>, up |-> Up(<< >>, NoGet, NoLoad, "unused", NoInvoke),
   out |-> Return(NoResult, NoExc), ops |-> << >>, sess |-> NoSessions]

\* No acrawl call is in progress
NoTasks == << >>

(***************************************************************************)
(* heap holds the CrawlResult objects the caller holds, oldest first: the  *)
(* results it kept from earlier calls and that of the call that just ended.*)
(***************************************************************************)
\* The results a caller keeps from earlier calls, at most
MaxHeap == 2

\* An engine that keeps one result object and fills it again for every call
Allocate_reuses(h, r) == IF h = << >> THEN <<r>> ELSE [h EXCEPT ![Len(h)] = r]

\* CrawlResult(...): a new object on every evaluation
Allocate(h, r) == Append(h, r)

\* What a call adds to the objects held: the one result it constructed, when
\* it returns one
Returned(h, out) ==
  IF out.kind = "return" /\ out.result # NoResult
  THEN Allocate(h, out.result)
  ELSE h

\* The results this caller keeps: those of calls for PlainUrl that were
\* answered with a page at once or not at all
Kept(r) ==
  /\ r.api \in {"WebBaseCrawler.crawl", "WebBaseCrawler.acrawl",
                 "requests_web_crawl"}
  /\ r.url = PlainUrl
  /\ r.up.get \in {Response(200, <<"b">>),
                    GetFails(Exc("ConnectionError", <<"connection refused">>))}

(***************************************************************************)
(* Concurrent acrawl calls on one WebBaseCrawler.  Each call is a          *)
(* coroutine on the event loop; session.get and loader.load are handed to  *)
(* the executor and awaited, everything between two awaits runs on the     *)
(* loop's thread.  tasks[t] holds the locals of call t: its position, its  *)
(* url, the request the executor sent for it with its answer, the loader's *)
(* answer, the blocking steps it made with the thread each ran on, and the *)
(* result it returned.                                                     *)
(***************************************************************************)
\* The number of acrawl calls gathered
MaxTasks == 2

Tasks == 1 .. MaxTasks

\* The URLs the calls are given, one each
AsyncUrls == {PlainUrl, CsdnUrl, NotAUrl}

AsyncGets ==
  {Response(200, <<"b">>), Response(200, << >>), Response(404, <<"b">>),
   GetFails(Exc("ConnectionError", <<"connection refused">>))}

AsyncLoads == {Docs(<< >>), Docs(<< <<"d">> >>)}

\* No request sent yet
NoRequest == [for |-> << >>, hdr |-> FALSE, ans |-> NoGet]

\* The request the executor sends: the url it is for, whether the session's
\* headers held the domain override when it was sent, and the answer
Request(url, hdr, g) == [for |-> url, hdr |-> hdr, ans |-> g]

\* A call that has not started
NewTask(url) ==
  [pc |-> "idle", url |-> url, get |-> NoRequest, load |-> NoLoad,
   steps |-> << >>, result |-> NoResult]

Step(op, on) == [op |-> op, on |-> on]

\* The url of a request taken from a place every call writes: that of the
\* call started last
WebBaseCrawler_session_params_shared(ts, t) ==
  LET started == {u \in DOMAIN ts : ts[u].pc # "idle"}
  IN ts[CHOOSE u \in started : \A v \in started : v <= u].url

\* session_params = {'url': url, ...}: a local of the call, read by the
\* lambda when the executor runs it
WebBaseCrawler_session_params(ts, t) == ts[t].url

\* The call steps over the fallback when the GET raised, the status check
\* raised or the decoded text is not blank
WebBaseCrawler_acrawl_loads(g) ==
  /\ g.kind = "response"
  /\ raise_for_status(g) = NoExc
  /\ WebBaseCrawler_needs_loader(g.body)

\* What runs on the loop's thread once the GET is back: the status check and,
\* when it passes, apparent_encoding and response.text
WebBaseCrawler_acrawl_decodes(g) ==
  IF g.kind = "raise" THEN << >>
  ELSE IF raise_for_status(g) # NoExc THEN << >>
  ELSE <<Step("decode", "loop")>>

\* acrawl up to its first await: validation, the header override, the GET
\* handed to the executor.
AcrawlStart ==
  \E t \in DOMAIN tasks :
    /\ tasks[t].pc = "idle"
    /\ IF ~WebBaseCrawler_validate_url(tasks[t].url)
       THEN /\ tasks' = [tasks EXCEPT
                           ![t].pc = "done",
                           ![t].result = WebBaseCrawler_invalid(tasks[t].url)]
            /\ wb' = wb
       ELSE /\ tasks' = [tasks EXCEPT ![t].pc = "get"]
            /\ wb' = [wb EXCEPT
                        !.override = @ \/ WebBaseCrawler_override(tasks[t].url)]
    /\ UNCHANGED <<env, tv, fac, ret, probe, heap>>

\* A worker of the executor runs lambda: self.session.get(**session_params)
ExecutorGet ==
  \E t \in DOMAIN tasks, g \in AsyncGets :
    /\ tasks[t].pc = "get"
    /\ tasks' = [tasks EXCEPT
                   ![t].pc = "got",
                   ![t].get = Request(WebBaseCrawler_session_params(tasks, t),
                                      wb.override, Session_get(wb, g)),
                   ![t].steps = Append(@, Step("get", "worker"))]
    /\ UNCHANGED <<env, wb, tv, fac, ret, probe, heap>>

\* The call resumes with the response: status check and decoding, then the
\* result, or the loader handed to the executor, or the except clause.
AcrawlGot ==
  \E t \in DOMAIN tasks :
    LET g == tasks[t].get.ans
    IN /\ tasks[t].pc = "got"
       /\ tasks' = [tasks EXCEPT
                      ![t].steps = @ \o WebBaseCrawler_acrawl_decodes(g),
                      ![t].pc = IF WebBaseCrawler_acrawl_loads(g)
                                THEN "load" ELSE "done",
                      ![t].result =
                        IF WebBaseCrawler_acrawl_loads(g)
                        THEN @
                        ELSE WebBaseCrawler_call(tasks[t].url, g, NoLoad,
                                                 "async").out.result]
       /\ UNCHANGED <<env, wb, tv, fac, ret, probe, heap>>

\* A worker of the executor runs loader.load
ExecutorLoad ==
  \E t \in DOMAIN tasks, l \in AsyncLoads :
    /\ tasks[t].pc = "load"
    /\ tasks' = [tasks EXCEPT
                   ![t].pc = "loaded",
                   ![t].load = l,
                   ![t].steps = Append(@, Step("load", "worker"))]
    /\ UNCHANGED <<env, wb, tv, fac, ret, probe, heap>>

\* The call resumes with the documents and returns
AcrawlLoaded ==
  \E t \in DOMAIN tasks :
    /\ tasks[t].pc = "loaded"
    /\ tasks' = [tasks EXCEPT
                   ![t].pc = "done",
                   ![t].result =
                     WebBaseCrawler_call(tasks[t].url, tasks[t].get.ans,
                                         tasks[t].load, "async").out.result]
    /\ UNCHANGED <<env, wb, tv, fac, ret, probe, heap>>

\* asyncio.gather over acrawl calls with distinct URLs on a fresh engine
InitAsync ==
  /\ env = [apiKey |-> FALSE, engine |-> "requests"]
  /\ wb = WebBaseCrawler_init
  /\ tv = NoTavily
  /\ fac = NoInstances
  /\ ret = NoCall
  /\ probe = NoResult
  /\ heap = << >>
  /\ tasks \in {[t \in Tasks |-> NewTask(u[t])] :
                  u \in {f \in [Tasks -> AsyncUrls] :
                           \A s, t \in Tasks : s # t => f[s] # f[t]}}

NextAsync ==
  \/ AcrawlStart
  \/ ExecutorGet
  \/ AcrawlGot
  \/ ExecutorLoad
  \/ AcrawlLoaded

SpecAsync == InitAsync /\ [][NextAsync]_vars

\* CrawlResult values of every shape, for the properties of the result model
ProbeStatuses == {NoStatus, 199, 200, 204, 299, 300, 304, 399, 400, 404, 500, 503}

ProbeResults ==
  {CrawlResult(PlainUrl, c, st, "", e) :
     c \in Bodies, st \in ProbeStatuses,
     e \in {None, Some(<< >>), Some(<<"e">>)}}

\* The environment: TAVILY_API_KEY set or not, CRAWLER_DEFAULT_TYPE
Init ==
  /\ env \in [apiKey : BOOLEAN, engine : CrawlerEngine]
  /\ wb = WebBaseCrawler_init
  /\ tv = NoTavily
  /\ fac = NoInstances
  /\ ret = NoCall
  /\ probe = NoResult
  /\ tasks = NoTasks
  /\ heap = << >>

\* crawler = TavilyCrawler()
NewTavily ==
  LET e == TavilyConfig_from_env(env.apiKey)
  IN /\ ret = NoCall
     /\ ~tv.exists
     /\ tv' = IF e = NoExc THEN TavilyCrawler_init ELSE tv
     /\ ret' = Call("TavilyCrawler.__init__", << >>,
                    [out |-> IF e = NoExc THEN Return(NoResult, NoExc) ELSE Raise(e),
                     ops |-> << >>],
                    NoGet, NoLoad, "unused", NoInvoke)
     /\ UNCHANGED <<env, wb, fac, probe, tasks, heap>>

TavilyCrawl ==
  \E url \in Urls, b \in BuildOutcomes, i \in InvokeOutcomes :
    LET c == TavilyCrawler_crawl(tv, url, b, i)
    IN /\ ret = NoCall
       /\ tv.exists
       /\ tv' = c.self
       /\ ret' = Call("TavilyCrawler.crawl", url, c, NoGet, NoLoad, b, i)
       /\ heap' = Returned(heap, c.out)
       /\ UNCHANGED <<env, wb, fac, probe, tasks>>

TavilyAcrawl ==
  \E url \in Urls, b \in BuildOutcomes, i \in InvokeOutcomes :
    LET c == TavilyCrawler_acrawl(tv, url, b, i)
    IN /\ ret = NoCall
       /\ tv.exists
       /\ tv' = c.self
       /\ ret' = Call("TavilyCrawler.acrawl", url, c, NoGet, NoLoad, b, i)
       /\ heap' = Returned(heap, c.out)
       /\ UNCHANGED <<env, wb, fac, probe, tasks>>

WebBaseCrawl ==
  \E url \in Urls, g \in GetOutcomes, l \in LoadOutcomes :
    LET c == WebBaseCrawler_call(url, Session_get(wb, g), l, "sync")
    IN /\ ret = NoCall
       /\ wb' = [wb EXCEPT !.override = @ \/ c.override]
       /\ ret' = Call("WebBaseCrawler.crawl", url, c, Session_get(wb, g), l,
                      "unused", NoInvoke)
       /\ heap' = Returned(heap, c.out)
       /\ UNCHANGED <<env, tv, fac, probe, tasks>>

WebBaseAcrawl ==
  \E url \in Urls, g \in GetOutcomes, l \in LoadOutcomes :
    LET c == WebBaseCrawler_call(url, Session_get(wb, g), l, "async")
    IN /\ ret = NoCall
       /\ wb' = [wb EXCEPT !.override = @ \/ c.override]
       /\ ret' = Call("WebBaseCrawler.acrawl", url, c, Session_get(wb, g), l,
                      "unused", NoInvoke)
       /\ heap' = Returned(heap, c.out)
       /\ UNCHANGED <<env, tv, fac, probe, tasks>>

\* The upstream a CrawlerTool call can reach is that of the configured engine.
ToolGets == IF env.engine = "requests" THEN GetOutcomes ELSE {NoGet}

ToolLoads == IF env.engine = "requests" THEN LoadOutcomes ELSE {NoLoad}

ToolBuilds == IF env.engine = "tavily" THEN BuildOutcomes ELSE {"unused"}

ToolInvokes == IF env.engine = "tavily" THEN InvokeOutcomes ELSE {NoInvoke}

ToolRun ==
  \E url \in Urls, g \in ToolGets, l \in ToolLoads,
     b \in ToolBuilds, i \in ToolInvokes :
    LET c == CrawlerTool_run(url, env.engine, env.apiKey, g, l, b, i)
        f == CrawlerEngineFactory_get_crawler(env.engine, env.apiKey)
    IN /\ ret = NoCall
       /\ CanMake(fac, f)
       /\ fac' = FactoryMade(fac, f)
       /\ ret' = Call("CrawlerTool._run", url, c, g, l, b, i)
       /\ UNCHANGED <<env, wb, tv, probe, tasks, heap>>

ToolArun ==
  \E url \in Urls, g \in ToolGets, l \in ToolLoads,
     b \in ToolBuilds, i \in ToolInvokes :
    LET c == CrawlerTool_arun(url, env.engine, env.apiKey, g, l, b, i)
        f == CrawlerEngineFactory_get_crawler(env.engine, env.apiKey)
    IN /\ ret = NoCall
       /\ CanMake(fac, f)
       /\ fac' = FactoryMade(fac, f)
       /\ ret' = Call("CrawlerTool._arun", url, c, g, l, b, i)
       /\ UNCHANGED <<env, wb, tv, probe, tasks, heap>>

TavilyWebCrawl ==
  \E url \in Urls, b \in BuildOutcomes, i \in InvokeOutcomes :
    LET c == tavily_web_crawl(url, env.apiKey, b, i)
    IN /\ ret = NoCall
       /\ ret' = Call("tavily_web_crawl", url, c, NoGet, NoLoad, b, i)
       /\ heap' = Returned(heap, c.out)
       /\ UNCHANGED <<env, wb, tv, fac, probe, tasks>>

RequestsWebCrawl ==
  \E url \in Urls, g \in GetOutcomes, l \in LoadOutcomes :
    LET c == requests_web_crawl(url, g, l)
    IN /\ ret = NoCall
       /\ ret' = Call("requests_web_crawl", url, c, g, l, "unused", NoInvoke)
       /\ heap' = Returned(heap, c.out)
       /\ UNCHANGED <<env, wb, tv, fac, probe, tasks>>

\* CrawlerEngineFactory.get_crawler(engine_type); the url of the call record
\* holds the argument.
GetCrawler ==
  \E engine_type \in CrawlerEngine :
    LET f == CrawlerEngineFactory_get_crawler(engine_type, env.apiKey)
    IN /\ ret = NoCall
       /\ CanMake(fac, f)
       /\ fac' = FactoryMade(fac, f)
       /\ ret' = Call("CrawlerEngineFactory.get_crawler", <<engine_type>>,
                      [out |-> IF f.exc = NoExc
                               THEN Return(NoResult, NoExc)
                               ELSE Raise(f.exc),
                       ops |-> << >>],
                      NoGet, NoLoad, "unused", NoInvoke)
       /\ UNCHANGED <<env, wb, tv, probe, tasks, heap>>

\* What a cleanup call or a with block hands back
Ended(c) == IF c.exc = NoExc THEN Return(NoResult, NoExc) ELSE Raise(c.exc)

\* crawler.cleanup() on the WebBaseCrawler
WebBaseCleanup ==
  LET c == WebBaseCrawler_cleanup(wb)
  IN /\ ret = NoCall
     /\ wb' = c.self
     /\ ret' = Call("WebBaseCrawler.cleanup", << >>,
                    [out |-> Ended(c), ops |-> <<"cleanup">>],
                    NoGet, NoLoad, "unused", NoInvoke)
     /\ UNCHANGED <<env, tv, fac, probe, tasks, heap>>

\* crawler.cleanup() on the TavilyCrawler
TavilyCleanup ==
  LET c == BaseCrawler_cleanup(tv)
  IN /\ ret = NoCall
     /\ tv.exists
     /\ tv' = c.self
     /\ ret' = Call("TavilyCrawler.cleanup", << >>,
                    [out |-> Ended(c), ops |-> <<"cleanup">>],
                    NoGet, NoLoad, "unused", NoInvoke)
     /\ UNCHANGED <<env, wb, fac, probe, tasks, heap>>

\* with crawler as c: <body>, on the WebBaseCrawler
WebBaseWith ==
  \E body \in BodyOutcomes :
    LET w == BaseCrawler_with(body,
                              WebBaseCrawler_cleanup(BaseCrawler_enter(wb)))
    IN /\ ret = NoCall
       /\ wb' = w.self
       /\ ret' = Call("WebBaseCrawler.with", << >>, w,
                      NoGet, NoLoad, "unused", NoInvoke)
       /\ UNCHANGED <<env, tv, fac, probe, tasks, heap>>

\* with crawler as c: <body>, on the TavilyCrawler
TavilyWith ==
  \E body \in BodyOutcomes :
    LET w == BaseCrawler_with(body, BaseCrawler_cleanup(BaseCrawler_enter(tv)))
    IN /\ ret = NoCall
       /\ tv.exists
       /\ tv' = w.self
       /\ ret' = Call("TavilyCrawler.with", << >>, w,
                      NoGet, NoLoad, "unused", NoInvoke)
       /\ UNCHANGED <<env, wb, fac, probe, tasks, heap>>

\* The caller has read what the call handed back and drops it, with every
\* result it held.
Discard ==
  /\ ret # NoCall
  /\ ret' = NoCall
  /\ heap' = << >>
  /\ UNCHANGED <<env, wb, tv, fac, probe, tasks>>

\* The caller keeps the results it holds, that of the call just ended
\* included, and goes on to the next call.
Keep ==
  /\ ret # NoCall
  /\ Kept(ret)
  /\ Len(heap) <= MaxHeap
  /\ ret' = NoCall
  /\ UNCHANGED <<env, wb, tv, fac, probe, tasks, heap>>

Next ==
  \/ NewTavily
  \/ TavilyCrawl
  \/ TavilyAcrawl
  \/ WebBaseCrawl
  \/ WebBaseAcrawl
  \/ ToolRun
  \/ ToolArun
  \/ TavilyWebCrawl
  \/ RequestsWebCrawl
  \/ GetCrawler
  \/ WebBaseCleanup
  \/ TavilyCleanup
  \/ WebBaseWith
  \/ TavilyWith
  \/ Discard

Spec == Init /\ [][Next]_vars

\* A caller that holds on to results while it goes on calling the
\* WebBaseCrawler and requests_web_crawl
InitHeap ==
  /\ env = [apiKey |-> FALSE, engine |-> "requests"]
  /\ wb = WebBaseCrawler_init
  /\ tv = NoTavily
  /\ fac = NoInstances
  /\ ret = NoCall
  /\ probe = NoResult
  /\ tasks = NoTasks
  /\ heap = << >>

NextHeap ==
  \/ WebBaseCrawl
  \/ WebBaseAcrawl
  \/ RequestsWebCrawl
  \/ WebBaseCleanup
  \/ Keep
  \/ Discard

SpecHeap == InitHeap /\ [][NextHeap]_vars

\* The result model alone: any CrawlResult a caller may construct
InitResult ==
  /\ env = [apiKey |-> FALSE, engine |-> "tavily"]
  /\ wb = WebBaseCrawler_init
  /\ tv = NoTavily
  /\ fac = NoInstances
  /\ ret = NoCall
  /\ probe \in ProbeResults
  /\ tasks = NoTasks
  /\ heap = << >>

Construct ==
  /\ probe' \in ProbeResults
  /\ UNCHANGED <<env, wb, tv, fac, ret, tasks, heap>>

NextResult == Construct

SpecResult == InitResult /\ [][NextResult]_vars

(***************************************************************************)
(* The claims                                                              *)
(***************************************************************************)
EngineCrawls == {"TavilyCrawler.crawl", "WebBaseCrawler.crawl"}

EngineAcrawls == {"TavilyCrawler.acrawl", "WebBaseCrawler.acrawl"}

WebBaseCalls == {"WebBaseCrawler.crawl", "WebBaseCrawler.acrawl"}

TavilyCalls == {"TavilyCrawler.crawl", "TavilyCrawler.acrawl"}

CrawlerToolCalls == {"CrawlerTool._run", "CrawlerTool._arun"}

ToolCalls == CrawlerToolCalls \cup {"tavily_web_crawl", "requests_web_crawl"}

\* The verdict of the validator of the engine behind an entry point
ValidFor(api, url) ==
  IF api \in TavilyCalls
  THEN TavilyCrawler_validate_url(url)
  ELSE WebBaseCrawler_validate_url(url)

\* The validator as the specification states it
StatedValidate(url) ==
  /\ ~urlparse(url).raises
  /\ urlparse(url).scheme \in {"http", "https"}
  /\ urlparse(url).netloc # << >>
  /\ Range(url) \cap Blocklist = {}

\* C1: for every engine and every URL that passes its validation, a crawl in
\* which an I/O or extraction failure arose does not raise: it returns a
\* CrawlResult whose error is non-empty.
C1_CrawlNeverRaises ==
  (/\ ret.api \in EngineCrawls
   /\ ValidFor(ret.api, ret.url)
   /\ ret.out.fault # NoExc)
    => (ret.out.kind = "return" /\ Truthy(ret.out.result.error))

\* An output value that tells the agent loop of a failure
ErrorShaped(r) ==
  IF r.api \in CrawlerToolCalls
  THEN /\ r.out.text # << >>
       /\ Head(r.out.text) \in {"Error crawling ",
                                "An unexpected error occurred while crawling "}
  ELSE Truthy(r.out.result.error) /\ ~tool_is_success(r.out.result)

\* C2: no tool entry point raises to its caller: every call returns a value,
\* and when an exception arose in the factory, the engine or the upstream the
\* value returned is error-shaped.
C2_ToolNeverRaises ==
  ret.api \in ToolCalls
    => (/\ ret.out.kind = "return"
        /\ (ret.out.fault # NoExc => ErrorShaped(ret)))

\* C2's case: an exception escaped the engine and the tool converted it.
C2_Witness ==
  /\ ret.api = "CrawlerTool._run"
  /\ ret.out.fault.type = "ContentExtractionError"
  /\ ret.out.kind = "return"
  /\ Head(ret.out.text) = "An unexpected error occurred while crawling "

\* C3: is_success and is_error are never both true of a CrawlResult.
C3_MutualExclusion ==
  /\ is_success(probe) => ~is_error(probe)
  /\ is_error(probe) => ~is_success(probe)

\* C3's case: an error result with a 2xx status and content.
C3_Witness ==
  /\ is_error(probe)
  /\ probe.status_code = 200
  /\ bool(probe.content)

\* is_success as the specification states it
StatedSuccess(r) ==
  /\ r.status_code \in 200..299
  /\ r.content # << >>
  /\ (r.error.isNone \/ r.error.s = << >>)

\* C4: is_success holds iff status_code is in [200,300), content is non-empty
\* and error is None or the empty string, for the engines' CrawlResult and for
\* the tools'.
C4_SuccessIff ==
  /\ is_success(probe) <=> StatedSuccess(probe)
  /\ tool_is_success(probe) <=> StatedSuccess(probe)

\* C4's case: a success at the upper edge of the 2xx range, its error the
\* empty string.
C4_Witness ==
  /\ is_success(probe)
  /\ probe.status_code = 299
  /\ probe.error = Some(<< >>)

InvalidUrlResult(r) ==
  /\ r.status_code = 400
  /\ r.content = << >>
  /\ r.error = Some(<<"Invalid URL">>)

\* C5 as claimed: for every engine, crawl of a URL that fails its validation
\* returns a CrawlResult with status_code 400, content "" and error
\* "Invalid URL".
C5_InvalidUrl400 ==
  (ret.api \in EngineCrawls /\ ~ValidFor(ret.api, ret.url))
    => (ret.out.kind = "return" /\ InvalidUrlResult(ret.out.result))

\* C5 as amended: crawl of a URL that fails the engine's validation returns
\* the 400 / "" / "Invalid URL" result on WebBaseCrawler, and raises
\* ValueError("Invalid URL: <url>") on TavilyCrawler; neither performs any
\* operation on the upstream.
C5_InvalidUrlPolicy ==
  (ret.api \in EngineCrawls /\ ~ValidFor(ret.api, ret.url))
    => /\ ret.ops = << >>
       /\ ret.api = "WebBaseCrawler.crawl"
            => (ret.out.kind = "return" /\ InvalidUrlResult(ret.out.result))
       /\ ret.api = "TavilyCrawler.crawl"
            => /\ ret.out.kind = "raise"
               /\ ret.out.exc = Exc("ValueError", <<"Invalid URL: ">> \o ret.url)

\* C5's case: WebBaseCrawler.crawl on a URL without a scheme.
C5_Witness ==
  /\ ret.api = "WebBaseCrawler.crawl"
  /\ ret.url = NotAUrl
  /\ InvalidUrlResult(ret.out.result)

\* C6: no engine and no tool entry point performs a network operation, or
\* any other work on the upstream, for a URL that fails validation (here: a
\* URL every validator of the code rejects).
C6_ValidationFirst ==
  (/\ ret.api \in EngineCrawls \cup EngineAcrawls \cup ToolCalls
   /\ ~TavilyCrawler_validate_url(ret.url)
   /\ ~WebBaseCrawler_validate_url(ret.url))
    => ret.ops = << >>

\* C7: the validator of every engine is the stated predicate (http or https,
\* a network location, no blocklisted character), so the two agree on the URL
\* of every call.
C7_SameValidator ==
  ret.api \in EngineCrawls \cup EngineAcrawls
    => /\ TavilyCrawler_validate_url(ret.url) = StatedValidate(ret.url)
       /\ WebBaseCrawler_validate_url(ret.url) = StatedValidate(ret.url)

\* Two outcomes with the same success/failure semantics
SameSemantics(o1, o2) ==
  /\ o1.kind = o2.kind
  /\ o1.kind = "raise" => o1.exc.type = o2.exc.type
  /\ o1.kind = "return"
       => /\ o1.result.status_code = o2.result.status_code
          /\ o1.result.content = o2.result.content
          /\ o1.result.error = o2.result.error

\* C8: for each engine, acrawl on the same engine state, the same URL and
\* the same upstream answers ends as crawl ends: both return results with
\* equal status_code, content and error, or both raise the same kind of
\* exception.
C8_AcrawlAsCrawl ==
  [][/\ ret'.api = "TavilyCrawler.crawl"
          => SameSemantics(ret'.out,
                           TavilyCrawler_acrawl(tv, ret'.url, ret'.up.build,
                                                ret'.up.invoke).out)
     /\ ret'.api = "WebBaseCrawler.crawl"
          => SameSemantics(ret'.out,
                           WebBaseCrawler_call(ret'.url, ret'.up.get,
                                               ret'.up.load, "async").out)]_vars

Count(ops, op) == Cardinality({k \in DOMAIN ops : ops[k] = op})

\* C9: in a WebBaseCrawler crawl/acrawl call the fallback loader is invoked
\* exactly once, after the one primary GET, iff that GET answered with a
\* non-error status and a body that is empty or whitespace only, and never
\* otherwise; a call that ends with the no-content failure has tried the
\* loader.
C9_Fallback ==
  ret.api \in WebBaseCalls
    => LET g == ret.up.get
           primaryOk == g.kind = "response" /\ g.status < 400
       IN /\ Count(ret.ops, "get") <= 1
          /\ Count(ret.ops, "load")
               = (IF primaryOk /\ strip(g.body) = << >> THEN 1 ELSE 0)
          /\ Count(ret.ops, "load") = 1 => ret.ops = <<"get", "load">>
          /\ (/\ ~ret.out.result.error.isNone
              /\ ret.out.fault.type = "ContentExtractionError")
               => Count(ret.ops, "load") = 1

\* C9's case: a 2xx answer with a whitespace-only body, and the loader tried.
C9_Witness ==
  /\ ret.api = "WebBaseCrawler.acrawl"
  /\ ret.up.get = Response(204, <<" ">>)
  /\ ret.ops = <<"get", "load">>
  /\ ret.out.fault.type = "ContentExtractionError"

\* C10: when the primary GET answers 200 with an empty (or whitespace-only)
\* body and the loader returns a document with content, the result is a
\* success, its content is the loader's page content and its status_code the
\* primary response's 200: for WebBaseCrawler and for requests_web_crawl.
C10_FallbackResult ==
  (/\ ret.api \in WebBaseCalls \cup {"requests_web_crawl"}
   /\ ret.up.get.kind = "response"
   /\ ret.up.get.status = 200
   /\ strip(ret.up.get.body) = << >>
   /\ ret.up.load.kind = "docs"
   /\ ret.up.load.docs # << >>
   /\ strip(ret.up.load.docs[1]) # << >>)
    => /\ ret.out.kind = "return"
       /\ IF ret.api = "requests_web_crawl"
          THEN tool_is_success(ret.out.result)
          ELSE is_success(ret.out.result)
       /\ ret.out.result.content = ret.up.load.docs[1]
       /\ ret.out.result.status_code = 200

\* C10's case: the empty 200 answered by a document with leading whitespace.
C10_Witness ==
  /\ ret.api = "WebBaseCrawler.crawl"
  /\ ret.up.get = Response(200, << >>)
  /\ ret.up.load = Docs(<< <<" ", "d">> >>)
  /\ is_success(ret.out.result)

\* C11: when the primary GET of WebBaseCrawler crawl/acrawl or of
\* requests_web_crawl answers with a non-2xx status, the status check raises,
\* the exception is caught, and the error result returned carries the status
\* code of that response.
C11_RealStatus ==
  (/\ ret.api \in WebBaseCalls \cup {"requests_web_crawl"}
   /\ ret.up.get.kind = "response"
   /\ ret.up.get.status \notin 200..299)
    => /\ ret.out.kind = "return"
       /\ ret.out.fault.type = "HTTPError"
       /\ ret.out.result.status_code = ret.up.get.status

\* C12: a CrawlResult an engine's crawl or acrawl returns has empty content
\* only together with a non-empty error.
C12_EmptyContentHasError ==
  (/\ ret.api \in EngineCrawls \cup EngineAcrawls
   /\ ret.out.kind = "return"
   /\ ret.out.result.content = << >>)
    => Truthy(ret.out.result.error)

\* C13: for a valid URL the extraction engine and the extraction tool hand
\* back a result whose status_code is 200 when the extraction succeeded and
\* 500 when it failed; no other status, and no absent status.
C13_SynthesizedStatus ==
  (/\ ret.api \in TavilyCalls \cup {"tavily_web_crawl"}
   /\ TavilyCrawler_validate_url(ret.url))
    => /\ ret.out.kind = "return"
       /\ ret.out.result.status_code
            = (IF ret.out.fault = NoExc THEN 200 ELSE 500)

\* sub occurs in s as a run of consecutive fragments
Contains(s, sub) ==
  \E k \in 0..(Len(s) - Len(sub)) : SubSeq(s, k + 1, k + Len(sub)) = sub

\* C14: when the extraction API answers with an empty results list, the
\* outcome is a result whose error contains failed_results[0].error if
\* failed_results holds one, and "No content extracted" if failed_results is
\* empty; an answer with results never ends with either message.
C14_EmptyResults ==
  (/\ ret.api \in TavilyCalls \cup {"tavily_web_crawl"}
   /\ ret.up.invoke.kind = "value"
   /\ ret.up.invoke.isDict)
    => LET i == ret.up.invoke
           msg == ret.out.result.error.s
       IN IF i.results = << >>
          THEN /\ ret.out.kind = "return"
               /\ (i.failed # << >> /\ i.failed[1].isDict /\ i.failed[1].hasError)
                    => Contains(msg, i.failed[1].error)
               /\ i.failed = << >> => Contains(msg, <<"No content extracted">>)
          ELSE /\ ~Contains(msg \o ret.out.exc.msg, <<"No content extracted">>)
               /\ ~Contains(msg \o ret.out.exc.msg, <<"Extraction failed: ">>)

\* C15: on one TavilyCrawler, the client is not built by the constructor; a
\* crawl/acrawl of a valid URL builds it iff no build has succeeded before; a
\* client once built stays; a failed build raises NetworkError inside the call
\* and leaves nothing cached, so that the next call builds again.
C15_ClientCache ==
  [][/\ (ret'.api \in TavilyCalls /\ TavilyCrawler_validate_url(ret'.url))
          => LET built == "build" \in Range(ret'.ops)
             IN /\ built <=> ~tv.client
                /\ tv.client => tv'.client
                /\ (built /\ ret'.up.build = "ok") => tv'.client
                /\ (built /\ ret'.up.build = "fail")
                     => /\ ~tv'.client
                        /\ ~tv'.cached
                        /\ ret'.out.fault.type = "NetworkError"
     /\ ret'.api = "TavilyCrawler.__init__" => ~tv'.client]_vars

\* C15's case: a call that reuses the client an earlier call built.
C15_Witness ==
  /\ ret.api = "TavilyCrawler.acrawl"
  /\ tv.client
  /\ ret.ops = <<"invoke">>

\* C16: with no API key in the environment, the extraction engine and tool
\* fail with a ConfigurationError, before any operation on the upstream.
C16_MissingKey ==
  (/\ ~env.apiKey
   /\ \/ ret.api \in {"TavilyCrawler.__init__", "tavily_web_crawl"}
      \/ ret.api \in CrawlerToolCalls /\ env.engine = "tavily"
      \/ ret.api = "CrawlerEngineFactory.get_crawler" /\ ret.url = <<"tavily">>)
    => /\ ret.ops = << >>
       /\ \/ isinstance(ret.out.fault.type, "ConfigurationError")
          \/ isinstance(ret.out.fault.type, "tool.ConfigurationError")

\* C17: the factory creates at most one engine per engine identifier.
C17_Singleton == \A e \in DOMAIN fac : fac[e] <= 1

\* C18: resolving an engine identifier without an implementation fails at
\* once: the call raises a ConfigurationError, and the failure is not turned
\* into a returned value.
C18_FailFast ==
  (\/ ret.api = "CrawlerEngineFactory.get_crawler" /\ ret.url = <<"custom">>
   \/ ret.api \in CrawlerToolCalls /\ env.engine = "custom")
    => /\ ret.out.kind = "raise"
       /\ isinstance(ret.out.exc.type, "ConfigurationError")

C20_ScopedCleanup ==
  ret.api \in {"WebBaseCrawler.with", "TavilyCrawler.with"}
    => /\ Count(ret.ops, "cleanup") = 1
       /\ ret.ops[Len(ret.ops)] = "cleanup"
       /\ ret.out.fault # NoExc
            => (ret.out.kind = "raise" /\ ret.out.exc = ret.out.fault)
       /\ ret.api = "WebBaseCrawler.with" => wb.closed

\* C20's case: the body raised, the session was closed, the exception went on.
C20_Witness ==
  /\ ret.api = "WebBaseCrawler.with"
  /\ ret.out.kind = "raise"
  /\ ret.out.exc \in BodyOutcomes
  /\ wb.closed

\* The network operations of the engines and the tools
NetworkOps == {"get", "load", "build", "invoke"}

\* The operations of the engine behind an engine identifier
EngineOps(engine_type) ==
  IF engine_type = "tavily" THEN {"build", "invoke"}
  ELSE IF engine_type = "requests" THEN {"get", "load"}
  ELSE {}

\* C24: there is no automatic retry or escalation: whatever the upstream
\* answers, a crawl, acrawl or tool call performs each network operation at
\* most once, and a CrawlerTool call performs operations of the configured
\* engine only.
C24_NoRetry ==
  ret.api \in EngineCrawls \cup EngineAcrawls \cup ToolCalls
    => (/\ \A op \in NetworkOps : Count(ret.ops, op) <= 1
        /\ ret.api \in CrawlerToolCalls
             => Range(ret.ops) \subseteq EngineOps(env.engine))

\* A CrawlerTool call whose GET failed and was sent once
C24_Witness ==
  /\ ret.api \in CrawlerToolCalls
  /\ ret.out.fault # NoExc
  /\ ret.up.get.kind = "raise"
  /\ ret.ops = <<"get">>

\* C28: each identifier of the CrawlerEngine set is selectable: with the
\* configuration in place, get_crawler returns an engine for it instead of
\* rejecting it.
C28_Selectable ==
  (/\ ret.api = "CrawlerEngineFactory.get_crawler"
   /\ ret.url[1] \in CrawlerEngine
   /\ env.apiKey)
    => ret.out.kind = "return"

\* C29: every CrawlResult an engine's crawl or acrawl returns satisfies
\* exactly one of is_success and is_error, also when the upstream answered a
\* status below 400 outside [200, 300), which the status check lets through.
C29_ExactlyOne ==
  (/\ ret.api \in EngineCrawls \cup EngineAcrawls
   /\ ret.out.kind = "return")
    => (is_success(ret.out.result) <=> ~is_error(ret.out.result))

\* The calls that hand a CrawlResult back: the engines and the crawl tools of
\* web_crawl.py
ResultCalls ==
  EngineCrawls \cup EngineAcrawls \cup {"tavily_web_crawl", "requests_web_crawl"}

\* C30: a returned result whose error is non-empty carries a status_code of
\* 400 or more, never a 2xx one and never an absent one, also when the GET was
\* answered 200 and the fallback loader extracted nothing.
C30_ErrorStatus ==
  (/\ ret.api \in ResultCalls
   /\ ret.out.kind = "return"
   /\ Truthy(ret.out.result.error))
    => ret.out.result.status_code >= 400

\* C27: every HTTP session opened while a tool invocation is served, by the
\* tool itself or by the WebBaseCrawler it constructs, is closed exactly once
\* by the time the invocation returns.
C27_SessionsClosed ==
  ret.api \in ToolCalls => ret.sess.closed = ret.sess.opened

\* The steps that block the thread they run on
BlockingOps == {"get", "load", "decode"}

\* C21: acrawl calls gathered on one WebBaseCrawler with distinct URLs, under
\* every interleaving: the result of each call holds the URL the call was
\* given, the request sent for it is for that URL, and its status and content
\* are those of the answers to its own request (or the 400 / 500 of an error
\* result).
C21_NoCrossTalk ==
  \A t \in DOMAIN tasks :
    LET k == tasks[t]
    IN (k.pc # "idle" /\ k.get # NoRequest => k.get.for = k.url)
       /\ (k.pc = "done"
            => /\ k.result.url = k.url
               /\ IF Truthy(k.result.error)
                  THEN k.result.status_code \in {400, 500}
                  ELSE /\ k.result.status_code = k.get.ans.status
                       /\ k.result.content
                            \in {k.get.ans.body} \cup Range(k.load.docs))

\* Every call returned a page, one from the GET and one from the fallback
\* loader, and the contents differ
C21_Witness ==
  /\ \A t \in DOMAIN tasks :
       tasks[t].pc = "done" /\ ~Truthy(tasks[t].result.error)
  /\ \E s, t \in DOMAIN tasks :
       /\ tasks[s].result.content # tasks[t].result.content
       /\ tasks[s].load # NoLoad
       /\ tasks[t].load = NoLoad

\* C22: the headers a request is sent with depend on its URL only: a request
\* for a URL that does not match the override carries no Referer / Cookie,
\* whatever the engine crawled before.
C22_HeadersByUrl ==
  \A t \in DOMAIN tasks :
    tasks[t].get # NoRequest
      => (tasks[t].get.hdr => WebBaseCrawler_override(tasks[t].get.for))

\* C23: acrawl never blocks the scheduler: every blocking step of a call (the
\* GET, the fallback loader, encoding detection and decoding of the body) runs
\* on a worker.
C23_NeverBlocks ==
  \A t \in DOMAIN tasks :
    \A n \in DOMAIN tasks[t].steps :
      tasks[t].steps[n].op \in BlockingOps => tasks[t].steps[n].on = "worker"

\* C26: a call that returns a result constructs exactly one CrawlResult, the
\* one it returns, and no call (crawl, acrawl, requests_web_crawl, cleanup)
\* changes a field of a result an earlier call returned.
C26_ResultsUntouched ==
  [][(ret = NoCall /\ ret' # NoCall)
       => /\ \A k \in DOMAIN heap : k \in DOMAIN heap' /\ heap'[k] = heap[k]
          /\ IF ret'.api \in ResultCalls /\ ret'.out.kind = "return"
             THEN /\ Len(heap') = Len(heap) + 1
                  /\ heap'[Len(heap')] = ret'.out.result
             ELSE Len(heap') = Len(heap)]_vars

\* The caller holds an earlier result, another call returned a different one
\* after it, and cleanup ran after both
C26_Witness ==
  /\ Len(heap) >= 2
  /\ heap[1] # heap[2]
  /\ ret.api = "WebBaseCrawler.cleanup"

(***************************************************************************)
(* The Browser Render Engine, the engine behind the identifier "custom"    *)
(* and the playwright_web_crawl import of tools/__init__.py, as section    *)
(* 4.6 of the specification describes it: per call a browser is launched,  *)
(* a page navigated with a timeout, the status of the navigation captured, *)
(* the rendered HTML converted to Markdown, and the browser closed in a    *)
(* finally block.  ops lists launch, navigate and close as they happen; a  *)
(* launch that failed opened nothing and is listed as launch_failed.       *)
(***************************************************************************)
BrowserLaunches == {"ok", "failed"}

\* Fragments the conversion drops: navigation, scripts, comments
Boilerplate == {"<nav>", "<script>", "<!--c-->"}

Htmls ==
  {<< >>, <<"<nav>">>, <<"text">>, <<"<nav>", "text">>,
   <<"<script>", " ", "<!--c-->">>, <<"text", "<nav>", "more">>}

\* page.goto(url, timeout, wait until network idle): the navigation response
\* with the rendered HTML, or the timeout
BrowserNavs ==
  {Response(st, h) : st \in {200, 204, 404, 503}, h \in Htmls}
    \cup {GetFails(Exc("TimeoutError", <<"Timeout 60000ms exceeded">>))}

\* HTML to Markdown: boilerplate removed, the rest kept in order
html2markdown(html) ==
  strip(SelectSeq(html, LAMBDA f : f \notin Boilerplate))

\* A release written after the body instead of in a finally block: skipped
\* when the body raised
BrowserCrawler_finally_on_success(t) ==
  IF t.out.kind = "raise" THEN t ELSE [t EXCEPT !.ops = @ \o <<"close">>]

\* finally: browser.close()
BrowserCrawler_finally(t) == [t EXCEPT !.ops = @ \o <<"close">>]

\* The body of a call once the browser is up: navigate, capture the status,
\* read and convert the HTML
BrowserCrawler_body(url, nav, mode) ==
  IF nav.kind = "raise"
  THEN [out |-> Raise(Exc("NetworkError", nav.exc.msg)),
        ops |-> <<"launch", "navigate">>]
  ELSE IF ~bool(html2markdown(nav.body))
  THEN [out |-> Raise(Exc("ContentExtractionError", <<"No content extracted">>)),
        ops |-> <<"launch", "navigate">>]
  ELSE [out |-> Return(CrawlResult(url, html2markdown(nav.body), nav.status,
                                   mode, None), NoExc),
        ops |-> <<"launch", "navigate">>]

\* crawl / acrawl of the Browser Render Engine: [out, ops]
BrowserCrawler_call(url, launch, nav, mode) ==
  IF ~StatedValidate(url)
  THEN [out |-> Return(CrawlResult(url, << >>, 400, "", Some(<<"Invalid URL">>)),
                       NoExc),
        ops |-> << >>]
  ELSE LET t == IF launch = "failed"
                THEN [out |-> Raise(Exc("NetworkError", <<"browser launch failed">>)),
                      ops |-> <<"launch_failed">>]
                ELSE BrowserCrawler_finally(BrowserCrawler_body(url, nav, mode))
       IN [out |-> IF t.out.kind = "raise"
                   THEN Return(CrawlResult(url, << >>, 500, "", Some(t.out.exc.msg)),
                               t.out.exc)
                   ELSE t.out,
           ops |-> t.ops]

BrowserCrawl ==
  \E url \in Urls, launch \in BrowserLaunches, nav \in BrowserNavs :
    LET c == BrowserCrawler_call(url, launch, nav, "browser")
    IN /\ ret = NoCall
       /\ ret' = Call("BrowserCrawler.crawl", url, c, nav, NoLoad, "unused",
                      NoInvoke)
       /\ heap' = Returned(heap, c.out)
       /\ UNCHANGED <<env, wb, tv, fac, probe, tasks>>

\* acrawl: the whole of crawl on a worker, awaited
BrowserAcrawl ==
  \E url \in Urls, launch \in BrowserLaunches, nav \in BrowserNavs :
    LET c == BrowserCrawler_call(url, launch, nav, "browser,method=async")
    IN /\ ret = NoCall
       /\ ret' = Call("BrowserCrawler.acrawl", url, c, nav, NoLoad, "unused",
                      NoInvoke)
       /\ heap' = Returned(heap, c.out)
       /\ UNCHANGED <<env, wb, tv, fac, probe, tasks>>

NextBrowser ==
  \/ BrowserCrawl
  \/ BrowserAcrawl
  \/ Discard

SpecBrowser == InitHeap /\ [][NextBrowser]_vars

BrowserCalls == {"BrowserCrawler.crawl", "BrowserCrawler.acrawl"}

\* C25: after any crawl of the Browser Render Engine, whether it succeeded
\* or failed, every browser the call launched has been closed; and when the
\* navigation timed out the result is an error result with status_code 500.
C25_BrowserClosed ==
  ret.api \in BrowserCalls
    => (/\ Count(ret.ops, "close") = Count(ret.ops, "launch")
        /\ ret.up.get.kind = "raise"
             => (/\ ret.out.kind = "return"
                 /\ is_error(ret.out.result)
                 /\ ~is_success(ret.out.result)
                 /\ ret.out.result.status_code = 500))

\* A crawl whose navigation timed out after the browser was launched
C25_Witness ==
  /\ ret.api = "BrowserCrawler.crawl"
  /\ ret.up.get.kind = "raise"
  /\ Count(ret.ops, "launch") = 1

====
